---- MODULE Spec2Model ----
(***************************************************************************)
(* Model of sft/mpt-7b/sft-instruction-mpt-7b.py: the script that loads    *)
(* mosaicml/dolly_hhrlhf, rewrites timdettmers/openassistant-guanaco into  *)
(* the prompt/response schema, concatenates the two and hands the result,  *)
(* together with formatting_prompts_func, to SFTTrainer.                   *)
(*                                                                         *)
(* A Python str is modelled as a sequence of one-character strings, so     *)
(* that str.split and str concatenation are computed character by          *)
(* character.                                                              *)
(***************************************************************************)
EXTENDS Integers, Sequences, FiniteSets, TLC

(***************************************************************************)
(* String literals of the script.                                          *)
(***************************************************************************)
HumanMarker == <<
    "#","#","#"," ","H","u","m","a","n",":"," " >>

AssistantMarker == <<
    "#","#","#"," ","A","s","s","i","s","t","a","n","t",":"," " >>

Preamble == <<
    "B","e","l","o","w"," ","i","s"," ","a","n"," ","i","n","s","t","r","u",
    "c","t","i","o","n"," ","t","h","a","t"," ","d","e","s","c","r","i","b",
    "e","s"," ","a"," ","t","a","s","k","."," ","W","r","i","t","e"," ","a",
    " ","r","e","s","p","o","n","s","e"," ","t","h","a","t"," ","a","p","p",
    "r","o","p","r","i","a","t","e","l","y"," ","c","o","m","p","l","e","t",
    "e","s"," ","t","h","e"," ","r","e","q","u","e","s","t","."," ","#","#",
    "#"," ","I","n","s","t","r","u","c","t","i","o","n",":"," " >>

ResponseCue == <<
    " ","#","#","#"," ","R","e","s","p","o","n","s","e",":"," " >>

Newline == << "\n" >>

(***************************************************************************)
(* Python's str.split(sep): the pieces between the non-overlapping         *)
(* occurrences of sep, found scanning from the left.                       *)
(***************************************************************************)
StartsAt(s, sep, k) ==
    /\ k >= 1
    /\ k + Len(sep) - 1 <= Len(s)
    /\ SubSeq(s, k, k + Len(sep) - 1) = sep

RECURSIVE Find(_, _, _)
Find(s, sep, k) ==
    IF k + Len(sep) - 1 > Len(s) THEN 0
    ELSE IF StartsAt(s, sep, k) THEN k
    ELSE Find(s, sep, k + 1)

RECURSIVE Split(_, _)
Split(s, sep) ==
    LET k == Find(s, sep, 1)
    IN  IF k = 0 THEN << s >>
        ELSE << SubSeq(s, 1, k - 1) >>
             \o Split(SubSeq(s, k + Len(sep), Len(s)), sep)

(***************************************************************************)
(* The body of the normalization loop, expression by expression.  Python   *)
(* lists are indexed from 0 and TLA+ sequences from 1, so [1] is the       *)
(* second piece and [0] the first.  Indexing [1] of a one-piece list       *)
(* raises IndexError.                                                      *)
(***************************************************************************)
PromptRaises(conversation) ==
    Len(Split(conversation, HumanMarker)) < 2

\* Bug variant: the human turn is not cut at the assistant marker.
PromptBody_NoCut(conversation) ==
    Split(conversation, HumanMarker)[2]

\* Bug variant: the last human turn, [-1], instead of the first, [1].
PromptBody_LastTurn(conversation) ==
    LET parts == Split(conversation, HumanMarker)
    IN  Split(parts[Len(parts)], AssistantMarker)[1]

PromptBody(conversation) ==
    Split(Split(conversation, HumanMarker)[2], AssistantMarker)[1]

\* Bug variant: the response cue is not appended.
PromptOf_NoCue(conversation) ==
    Preamble \o PromptBody(conversation)

PromptOf(conversation) ==
    Preamble \o PromptBody(conversation) \o ResponseCue

ResponseRaises(conversation) ==
    Len(Split(conversation, AssistantMarker)) < 2

\* Bug variant: the answer is not cut at the next human turn.
ResponseOf_NoCut(conversation) ==
    Split(conversation, AssistantMarker)[2]

ResponseOf(conversation) ==
    Split(Split(conversation, AssistantMarker)[2], HumanMarker)[1]

(***************************************************************************)
(* formatting_prompts_func: one string per row of the batch, in order.     *)
(***************************************************************************)
\* Bug variant: prompt and response are joined without the newline.
formatting_prompts_func_NoNewline(dataset) ==
    [ k \in 1..Len(dataset.prompt) |->
        dataset.prompt[k] \o dataset.response[k] ]

formatting_prompts_func(dataset) ==
    [ k \in 1..Len(dataset.prompt) |->
        dataset.prompt[k] \o Newline \o dataset.response[k] ]

(***************************************************************************)
(* Bounds and the inputs drawn within them.                                *)
(***************************************************************************)
MaxTurns == 3
MaxA == 1
MaxB == 2
MaxBatch == 2

NearHumanMarker == SubSeq(HumanMarker, 1, Len(HumanMarker) - 1)

Texts == { << >>, <<"Q","1"," ">>, <<"A","1"," ">>, NearHumanMarker }

Leads == { << >>, <<"A","1"," ">> }

Markers == { HumanMarker, AssistantMarker }

Turns == { m \o t : m \in Markers, t \in Texts }

RECURSIVE TurnSeqs(_)
TurnSeqs(n) ==
    IF n = 0 THEN { << >> }
    ELSE LET shorter == TurnSeqs(n - 1)
         IN  shorter \cup { c \o t : c \in shorter, t \in Turns }

ExampleConversation == <<
    "#","#","#"," ","H","u","m","a","n",":"," ","Q","1"," ","#","#","#"," ",
    "A","s","s","i","s","t","a","n","t",":"," ","A","1"," ","#","#","#"," ",
    "H","u","m","a","n",":"," ","Q","2" >>

\* Well-formed conversations of two human/assistant pairs.
TwoPairConversations ==
    { HumanMarker \o q1 \o AssistantMarker \o r1
      \o HumanMarker \o q2 \o AssistantMarker \o r2 :
        q1 \in Texts, r1 \in Texts, q2 \in Texts, r2 \in Texts }

RawConversations ==
    { l \o c : l \in Leads, c \in TurnSeqs(MaxTurns) }
    \cup TwoPairConversations
    \cup { ExampleConversation }

SinglePair == HumanMarker \o <<"Q","1"," ">> \o AssistantMarker \o <<"A","1"," ">>
NoAssistant == HumanMarker \o <<"Q","1"," ">>
NoHuman == AssistantMarker \o <<"A","1"," ">>
EmptyAnswer == HumanMarker \o <<"Q","1"," ">> \o AssistantMarker
AssistantFirst == AssistantMarker \o <<"A","1"," ">> \o HumanMarker \o <<"Q","1"," ">>

NearAssistantPair ==
    HumanMarker \o <<"Q","1"," ">> \o SubSeq(AssistantMarker, 1, Len(AssistantMarker) - 1)
    \o AssistantMarker \o <<"A","1"," ">>

MixConversations ==
    { ExampleConversation, SinglePair, NoAssistant, NoHuman, EmptyAnswer,
      AssistantFirst, NearAssistantPair }

ExampleA == [ prompt |-> <<"P","1">>, response |-> <<"R","1">> ]

DollyRows == { ExampleA, [ prompt |-> <<"P","2">>, response |-> <<"R","2">> ] }

RECURSIVE SeqsUpTo(_, _)
SeqsUpTo(S, n) ==
    IF n = 0 THEN { << >> }
    ELSE LET shorter == SeqsUpTo(S, n - 1)
         IN  shorter \cup { Append(q, x) : q \in shorter, x \in S }

TextRow(conversation) == [ text |-> conversation ]

\* What the hub serves: either a mix of a few rows of each source, or no
\* dolly rows and one guanaco row holding any of the raw conversations.
HubContents ==
    ( SeqsUpTo(DollyRows, MaxA)
      \X { [ k \in 1..Len(q) |-> TextRow(q[k]) ] :
             q \in SeqsUpTo(MixConversations, MaxB) } )
    \cup ( { << >> } \X { << TextRow(c) >> : c \in RawConversations } )

(***************************************************************************)
(* State.                                                                  *)
(***************************************************************************)
VARIABLES
    hubDolly,               \* rows the hub serves for mosaicml/dolly_hhrlhf
    hubOpenAssistant,       \* rows it serves for timdettmers/openassistant-guanaco
    pc,                     \* the statement the script is at
    train_dataset,
    dataset_openassistant,  \* its "train" split
    prompts,
    responses,
    i,                      \* index of the next row the for loop visits
    error,                  \* the exception that ended the script, if any
    trainer,                \* the dataset SFTTrainer was given, or NoTrainer
    formatted               \* strings formatting_func has returned to the trainer

vars == << hubDolly, hubOpenAssistant, pc, train_dataset, dataset_openassistant,
           prompts, responses, i, error, trainer, formatted >>

NoTrainer == [ constructed |-> FALSE ]

Init ==
    /\ \E hub \in HubContents :
         /\ hubDolly = hub[1]
         /\ hubOpenAssistant = hub[2]
    /\ pc = "load_dolly"
    /\ train_dataset = << >>
    /\ dataset_openassistant = << >>
    /\ prompts = << >>
    /\ responses = << >>
    /\ i = 0
    /\ error = "none"
    /\ trainer = NoTrainer
    /\ formatted = << >>

\* train_dataset = load_dataset("mosaicml/dolly_hhrlhf", split="train")
LoadDolly ==
    /\ pc = "load_dolly"
    /\ train_dataset' = hubDolly
    /\ pc' = "load_openassistant"
    /\ UNCHANGED << hubDolly, hubOpenAssistant, dataset_openassistant, prompts,
                    responses, i, error, trainer, formatted >>

\* dataset_openassistant = load_dataset(...); prompts = []; responses = []
LoadOpenAssistant ==
    /\ pc = "load_openassistant"
    /\ dataset_openassistant' = hubOpenAssistant
    /\ prompts' = << >>
    /\ responses' = << >>
    /\ i' = 0
    /\ pc' = "loop"
    /\ UNCHANGED << hubDolly, hubOpenAssistant, train_dataset, error, trainer,
                    formatted >>

\* Bug variant: a row whose split fails gets a default example and the loop
\* goes on (the indexing wrapped in try/except).
LoopBody_Default ==
    /\ pc = "loop"
    /\ i < Len(dataset_openassistant)
    /\ LET conversation == dataset_openassistant[i + 1].text
       IN  IF PromptRaises(conversation) \/ ResponseRaises(conversation)
           THEN /\ prompts' = Append(prompts, Preamble \o ResponseCue)
                /\ responses' = Append(responses, << >>)
           ELSE /\ prompts' = Append(prompts, PromptOf(conversation))
                /\ responses' = Append(responses, ResponseOf(conversation))
    /\ i' = i + 1
    /\ UNCHANGED << hubDolly, hubOpenAssistant, pc, error, train_dataset,
                    dataset_openassistant, trainer, formatted >>

\* One iteration of the for loop.  The prompt is appended before the
\* response is computed, so a failure of the second split leaves it behind.
LoopBody ==
    /\ pc = "loop"
    /\ i < Len(dataset_openassistant)
    /\ LET conversation == dataset_openassistant[i + 1].text
       IN  IF PromptRaises(conversation)
           THEN /\ error' = "IndexError"
                /\ pc' = "raised"
                /\ UNCHANGED << prompts, responses, i >>
           ELSE IF ResponseRaises(conversation)
           THEN /\ prompts' = Append(prompts, PromptOf(conversation))
                /\ error' = "IndexError"
                /\ pc' = "raised"
                /\ UNCHANGED << responses, i >>
           ELSE /\ prompts' = Append(prompts, PromptOf(conversation))
                /\ responses' = Append(responses, ResponseOf(conversation))
                /\ i' = i + 1
                /\ UNCHANGED << pc, error >>
    /\ UNCHANGED << hubDolly, hubOpenAssistant, train_dataset,
                    dataset_openassistant, trainer, formatted >>

\* add_column("prompt", prompts); add_column("response", responses)
AddColumns ==
    /\ pc = "loop"
    /\ i = Len(dataset_openassistant)
    /\ dataset_openassistant' =
         [ k \in 1..Len(dataset_openassistant) |->
             [ text |-> dataset_openassistant[k].text,
               prompt |-> prompts[k],
               response |-> responses[k] ] ]
    /\ pc' = "remove_columns"
    /\ UNCHANGED << hubDolly, hubOpenAssistant, train_dataset, prompts, responses,
                    i, error, trainer, formatted >>

\* remove_columns([col for col in column_names if col not in ["prompt", "response"]])
RemoveColumns ==
    /\ pc = "remove_columns"
    /\ dataset_openassistant' =
         [ k \in 1..Len(dataset_openassistant) |->
             [ prompt |-> dataset_openassistant[k].prompt,
               response |-> dataset_openassistant[k].response ] ]
    /\ pc' = "concatenate"
    /\ UNCHANGED << hubDolly, hubOpenAssistant, train_dataset, prompts, responses,
                    i, error, trainer, formatted >>

\* Bug variant: the two datasets are concatenated in the other order.
Concatenate_Reversed ==
    /\ pc = "concatenate"
    /\ train_dataset' = dataset_openassistant \o train_dataset
    /\ pc' = "trainer"
    /\ UNCHANGED << hubDolly, hubOpenAssistant, dataset_openassistant, prompts,
                    responses, i, error, trainer, formatted >>

\* train_dataset = concatenate_datasets([train_dataset, dataset_openassistant["train"]])
Concatenate ==
    /\ pc = "concatenate"
    /\ train_dataset' = train_dataset \o dataset_openassistant
    /\ pc' = "trainer"
    /\ UNCHANGED << hubDolly, hubOpenAssistant, dataset_openassistant, prompts,
                    responses, i, error, trainer, formatted >>

\* Bug variant: the trainer is constructed right after dolly is loaded, before
\* the second dataset is fetched and mixed in.
SFTTrainerInit_BeforeMix ==
    /\ pc = "load_openassistant"
    /\ trainer = NoTrainer
    /\ trainer' = [ constructed |-> TRUE, train_dataset |-> train_dataset ]
    /\ UNCHANGED << hubDolly, hubOpenAssistant, pc, train_dataset,
                    dataset_openassistant, prompts, responses, i, error, formatted >>

\* trainer = SFTTrainer(train_dataset=train_dataset,
\*                      formatting_func=formatting_prompts_func, ...)
\* The constructor receives the dataset; it then maps formatting_func over it.
SFTTrainerInit ==
    /\ pc = "trainer"
    /\ trainer' = [ constructed |-> TRUE, train_dataset |-> train_dataset ]
    /\ pc' = "formatting"
    /\ UNCHANGED << hubDolly, hubOpenAssistant, train_dataset,
                    dataset_openassistant, prompts, responses, i, error, formatted >>

Columns(rows) ==
    [ prompt |-> [ k \in 1..Len(rows) |-> rows[k].prompt ],
      response |-> [ k \in 1..Len(rows) |-> rows[k].response ] ]

\* The trainer calls formatting_func on the next batch of rows.
TrainerFormatBatch ==
    /\ pc = "formatting"
    /\ Len(formatted) < Len(trainer.train_dataset)
    /\ \E n \in 1..MaxBatch :
         /\ Len(formatted) + n <= Len(trainer.train_dataset)
         /\ formatted' = formatted \o formatting_prompts_func(
              Columns(SubSeq(trainer.train_dataset, Len(formatted) + 1,
                             Len(formatted) + n)))
    /\ UNCHANGED << hubDolly, hubOpenAssistant, pc, train_dataset,
                    dataset_openassistant, prompts, responses, i, error, trainer >>

\* trainer.train()
TrainerTrain ==
    /\ pc = "formatting"
    /\ Len(formatted) = Len(trainer.train_dataset)
    /\ pc' = "done"
    /\ UNCHANGED << hubDolly, hubOpenAssistant, train_dataset,
                    dataset_openassistant, prompts, responses, i, error, trainer,
                    formatted >>

Next ==
    \/ LoadDolly
    \/ LoadOpenAssistant
    \/ LoopBody
    \/ AddColumns
    \/ RemoveColumns
    \/ Concatenate
    \/ SFTTrainerInit
    \/ TrainerFormatBatch
    \/ TrainerTrain

Spec == Init /\ [][Next]_vars

(***************************************************************************)
(* Vocabulary of the properties.                                           *)
(***************************************************************************)
Contains(s, m) == \E k \in 1..Len(s) : StartsAt(s, m, k)

HasMarker(s) == Contains(s, HumanMarker) \/ Contains(s, AssistantMarker)

EndsWith(s, t) == Len(t) <= Len(s) /\ SubSeq(s, Len(s) - Len(t) + 1, Len(s)) = t

WithoutLast(s) == SubSeq(s, 1, Len(s) - 1)

From(s, k) == SubSeq(s, k, Len(s))

Rows == 1..Len(hubOpenAssistant)

Raw(j) == hubOpenAssistant[j].text

\* Row j has been through the loop body and both its fields were appended.
Normalized(j) == j <= Len(responses)

\* The loop body raised on row j.
RaisedAt(j) == pc = "raised" /\ i + 1 = j

\* c is "### Human: " + H + "### Assistant: " + R with the assistant marker
\* at position a, and neither H nor R holds a marker.
HumanText(c, a) == SubSeq(c, Len(HumanMarker) + 1, a - 1)

AssistantText(c, a) == From(c, a + Len(AssistantMarker))

SinglePairAt(c, a) ==
    /\ StartsAt(c, HumanMarker, 1)
    /\ a > Len(HumanMarker)
    /\ StartsAt(c, AssistantMarker, a)
    /\ ~HasMarker(HumanText(c, a))
    /\ ~HasMarker(AssistantText(c, a))

\* C1 as claimed: a record "### Human: " + H + "### Assistant: " + R, with no
\* marker in H or R, normalizes to prompt = preamble + H + " ### Response: "
\* and response = R, and no turn marker occurs in the prompt or the response.
C1_Claimed ==
    \A j \in Rows : \A a \in 1..Len(Raw(j)) :
        SinglePairAt(Raw(j), a) =>
            /\ ~RaisedAt(j)
            /\ Normalized(j) =>
                 /\ prompts[j] = Preamble \o HumanText(Raw(j), a) \o ResponseCue
                 /\ responses[j] = AssistantText(Raw(j), a)
                 /\ ~HasMarker(prompts[j])
                 /\ ~HasMarker(responses[j])

\* C1 amended: the same prompt and response; no marker occurs in the response,
\* and a marker occurs in the prompt only when H ends with that marker less its
\* final space, which the leading space of " ### Response: " then completes.
C1_SinglePair ==
    \A j \in Rows : \A a \in 1..Len(Raw(j)) :
        SinglePairAt(Raw(j), a) =>
            /\ ~RaisedAt(j)
            /\ Normalized(j) =>
                 /\ prompts[j] = Preamble \o HumanText(Raw(j), a) \o ResponseCue
                 /\ responses[j] = AssistantText(Raw(j), a)
                 /\ ~HasMarker(responses[j])
                 /\ \A m \in Markers :
                        Contains(prompts[j], m) =>
                            EndsWith(HumanText(Raw(j), a), WithoutLast(m))

\* A single-pair record whose human text ends with "### Human:" was normalized
\* and the prompt holds the human marker.
C1_Witness ==
    \E j \in Rows : \E a \in 1..Len(Raw(j)) :
        /\ SinglePairAt(Raw(j), a)
        /\ Normalized(j)
        /\ AssistantText(Raw(j), a) # << >>
        /\ EndsWith(HumanText(Raw(j), a), NearHumanMarker)
        /\ Contains(prompts[j], HumanMarker)

\* c holds lead + "### Human: " + q1 + "### Assistant: " + r1 + "### Human: "
\* + later turns, with the markers at h, a and h2; no marker in lead, q1 or
\* r1, and a further assistant turn among the later turns.
FirstQuestion(c, h, a) == SubSeq(c, h + Len(HumanMarker), a - 1)

FirstAnswer(c, a, h2) == SubSeq(c, a + Len(AssistantMarker), h2 - 1)

LeadAt(c, h) ==
    /\ StartsAt(c, HumanMarker, h)
    /\ ~HasMarker(SubSeq(c, 1, h - 1))

QuestionAt(c, h, a) ==
    /\ a >= h + Len(HumanMarker)
    /\ StartsAt(c, AssistantMarker, a)
    /\ ~HasMarker(FirstQuestion(c, h, a))

AnswerAt(c, a, h2) ==
    /\ h2 >= a + Len(AssistantMarker)
    /\ StartsAt(c, HumanMarker, h2)
    /\ ~HasMarker(FirstAnswer(c, a, h2))
    /\ Contains(From(c, h2 + Len(HumanMarker)), AssistantMarker)

Positions(c) == 1..Len(c)

\* C2: of a record holding several human/assistant pairs only the first is
\* extracted: the instruction body is the text between the first human marker
\* and the first assistant marker, the response the text between the first
\* assistant marker and the next human marker; nothing of a later turn is in.
C2_FirstPairOnly ==
    \A j \in Rows :
      \A h \in Positions(Raw(j)) : LeadAt(Raw(j), h) =>
        \A a \in Positions(Raw(j)) : QuestionAt(Raw(j), h, a) =>
          \A h2 \in Positions(Raw(j)) : AnswerAt(Raw(j), a, h2) =>
            /\ ~RaisedAt(j)
            /\ Normalized(j) =>
                 /\ prompts[j] =
                      Preamble \o FirstQuestion(Raw(j), h, a) \o ResponseCue
                 /\ responses[j] = FirstAnswer(Raw(j), a, h2)

\* A two-pair record whose second question differs from its first was normalized.
C2_Witness ==
    \E j \in Rows :
      \E h \in Positions(Raw(j)) : LeadAt(Raw(j), h) /\
        \E a \in Positions(Raw(j)) : QuestionAt(Raw(j), h, a) /\
          \E h2 \in Positions(Raw(j)) :
            /\ AnswerAt(Raw(j), a, h2)
            /\ Normalized(j)
            /\ FirstQuestion(Raw(j), h, a) # << >>
            /\ ~StartsAt(Raw(j), FirstQuestion(Raw(j), h, a),
                         h2 + Len(HumanMarker))

\* A record lacking a turn marker.
LacksMarker(c) == ~Contains(c, HumanMarker) \/ ~Contains(c, AssistantMarker)

\* C3 as claimed: on a record lacking either marker normalize fails with
\* MalformedRecord, and no example is produced for the record.
C3_Claimed ==
    \A j \in Rows :
        LacksMarker(Raw(j)) =>
            /\ ~Normalized(j)
            /\ RaisedAt(j) => error = "MalformedRecord"

NormalizedRow(c) == [ prompt |-> PromptOf(c), response |-> ResponseOf(c) ]

Mixed == pc \in { "trainer", "formatting", "done" }

C5_Format ==
    trainer.constructed =>
        /\ Len(formatted) <= Len(trainer.train_dataset)
        /\ \A k \in 1..Len(formatted) :
               formatted[k] = trainer.train_dataset[k].prompt \o << "\n" >>
                              \o trainer.train_dataset[k].response
        /\ pc = "done" => Len(formatted) = Len(trainer.train_dataset)

\* Three examples have been formatted, in batches.
C5_Witness ==
    /\ pc = "done"
    /\ Len(formatted) >= 3
    /\ formatted[1] # formatted[2]

IsExampleScenario ==
    /\ hubDolly = << ExampleA >>
    /\ hubOpenAssistant = << TextRow(ExampleConversation) >>

\* C6 as claimed: in the example scenario the normalized record has prompt =
\* preamble + "Q1 ### Response: " and response = "A1 "; the mix has two
\* elements and the formatted text of the second starts with the preamble.
C6_Claimed ==
    IsExampleScenario =>
        /\ ~RaisedAt(1)
        /\ Normalized(1) =>
             /\ prompts[1] = Preamble \o <<"Q","1">> \o ResponseCue
             /\ responses[1] = <<"A","1"," ">>
        /\ Mixed => Len(train_dataset) = 2
        /\ Len(formatted) = 2 => StartsAt(formatted[2], Preamble, 1)

\* C6 amended: the prompt is preamble + "Q1 " + " ### Response: ": the space
\* that follows Q1 in the record stays, so two spaces precede "###".
C6_Scenario ==
    IsExampleScenario =>
        /\ ~RaisedAt(1)
        /\ Normalized(1) =>
             /\ prompts[1] = Preamble \o <<"Q","1"," ">> \o ResponseCue
             /\ responses[1] = <<"A","1"," ">>
        /\ Mixed => Len(train_dataset) = 2
        /\ Len(formatted) = 2 => StartsAt(formatted[2], Preamble, 1)

\* The example scenario ran to the end.
C6_Witness ==
    /\ IsExampleScenario
    /\ pc = "done"
    /\ Len(formatted) = 2

SomeRowLacksMarker == \E j \in Rows : LacksMarker(Raw(j))

FirstLacking == CHOOSE j \in Rows :
    /\ LacksMarker(Raw(j))
    /\ \A k \in 1..(j - 1) : ~LacksMarker(Raw(k))

\* C7: when some guanaco row lacks a marker the run stops at the first such
\* row: every row before it is normalized, none is skipped or given a
\* default, nothing is mixed and the trainer is never constructed or run.
C7_FailFast ==
    SomeRowLacksMarker =>
        /\ i < FirstLacking
        /\ Len(responses) = i
        /\ Len(prompts) \in { i, i + 1 }
        /\ pc \in { "load_dolly", "load_openassistant", "loop", "raised" }
        /\ trainer = NoTrainer
        /\ formatted = << >>
        /\ pc = "raised" => i + 1 = FirstLacking /\ ~ENABLED Next

\* The run stopped at a second row after the first was normalized.
C7_Witness ==
    /\ pc = "raised"
    /\ i = 1
    /\ Len(hubOpenAssistant) >= 2

FirstAssistantTurn(c) == From(c, Find(c, AssistantMarker, 1) + Len(AssistantMarker))

\* C8 as claimed: every example normalize produces has a non-empty prompt
\* ending with " ### Response: " and a non-empty response.
C8_Claimed ==
    \A j \in Rows :
        Normalized(j) =>
            /\ prompts[j] # << >>
            /\ EndsWith(prompts[j], ResponseCue)
            /\ responses[j] # << >>

\* C8 amended: the prompt is non-empty and ends with " ### Response: "; the
\* response is empty exactly when the first assistant marker is followed at
\* once by the end of the record or by another turn marker.
C8_Example ==
    /\ \A j \in 1..Len(prompts) :
           /\ prompts[j] # << >>
           /\ EndsWith(prompts[j], ResponseCue)
    /\ \A j \in Rows :
           Normalized(j) =>
               ( responses[j] = << >>
                   <=> \/ FirstAssistantTurn(Raw(j)) = << >>
                       \/ \E m \in Markers :
                              StartsAt(FirstAssistantTurn(Raw(j)), m, 1) )

\* A record with an empty assistant turn was normalized to an empty response.
C8_Witness ==
    \E j \in Rows :
        /\ Normalized(j)
        /\ responses[j] = << >>
        /\ PromptBody(Raw(j)) # << >>

\* The script is at a statement that fetches a dataset or normalizes a row.
AtFetchOrNormalize == pc \in { "load_dolly", "load_openassistant", "loop" }

ScriptData == << train_dataset, dataset_openassistant, prompts, responses, i >>

\* C9 as claimed: every fetch, normalization and formatting comes before the
\* trainer is given the dataset: no such step happens once it is constructed.
C9_Claimed ==
    [][ trainer.constructed =>
          /\ ~AtFetchOrNormalize
          /\ UNCHANGED ScriptData
          /\ UNCHANGED formatted ]_vars

\* C9 amended: every fetch and normalization comes before the trainer is given
\* the dataset; formatting does not: formatting_prompts_func is only passed to
\* SFTTrainer, which calls it after it has the dataset.
C9_HandOff ==
    [][ /\ trainer.constructed =>
             /\ ~AtFetchOrNormalize
             /\ UNCHANGED ScriptData
        /\ formatted' # formatted => trainer.constructed ]_vars

\* The trainer holds rows of both sources and has formatted some of them.
C9_Witness ==
    /\ trainer.constructed
    /\ Len(hubDolly) >= 1
    /\ Len(responses) >= 1
    /\ Len(formatted) >= 1
    /\ pc = "formatting"

\* The answer that follows the first human turn: the text after the first
\* assistant marker behind the first human marker, up to the next human marker.
AnswerToFirstHuman(c) ==
    LET h == Find(c, HumanMarker, 1)
        a == Find(c, AssistantMarker, h + Len(HumanMarker))
        rest == From(c, a + Len(AssistantMarker))
        n == Find(rest, HumanMarker, 1)
    IN  IF n = 0 THEN rest ELSE SubSeq(rest, 1, n - 1)

HasAnswerToFirstHuman(c) ==
    Find(c, AssistantMarker, Find(c, HumanMarker, 1) + Len(HumanMarker)) # 0

\* C10 as claimed: the extracted response is the assistant turn that answers
\* the extracted human turn, whatever the order of the markers in the record.
C10_Claimed ==
    \A j \in Rows :
        Normalized(j) =>
            /\ HasAnswerToFirstHuman(Raw(j))
            /\ responses[j] = AnswerToFirstHuman(Raw(j))

====
